---- MODULE Spec2Model ----
(***************************************************************************)
(* A model of the RaydiumSwap client (class RaydiumSwap and the `swap`     *)
(* driver): the pool catalog (loadPoolKeys / findPoolInfoForTokens), the   *)
(* on-chain pool resolution (getProgramAccounts / findRaydiumPoolInfo),    *)
(* and the quote / transaction assembly / submission path                  *)
(* (calcAmountOut / getSwapTransaction / the send and simulate methods).   *)
(***************************************************************************)
EXTENDS Integers, Sequences, FiniteSets, TLC

(* ------------------------------ bounds -------------------------------- *)

\* longest catalog (pool list) a snapshot or a fetched body may hold
MaxCatalog == 2

\* number of getSwapTransaction calls followed in one behaviour
MaxCalls == 2

\* highest ledger slot (each slot has its own blockhash)
MaxSlot == 1

(* --------------------------- program constants ------------------------ *)

\* getSwapTransaction(..., slippage: number = 5), calcAmountOut(..., slippage = 5)
DefaultSlippage == 5

\* version: 4 of a pool found on chain
PoolVersion == 4

\* marketVersion: 3 of a pool found on chain
MarketVersion == 3

RAYDIUM_V4_PROGRAM_ID == "675kPX9MHTjS2zt1qfr1NYHuzeLXfQM9H24wFSUt1Mp8"

(* ------------------------------ values -------------------------------- *)

\* JavaScript's null and undefined
Null == [null |-> TRUE]

Undefined == [undefined |-> TRUE]

\* mint addresses (base58 strings)
Mints == {"X", "Y", "Z"}

\* new PublicKey(s): the key object of a base58 string
PublicKey(s) == [b58 |-> s]

\* PublicKey.toString(): the base58 string of a key object
toString(pk) == pk.b58

\* all sequences over S of length at most n
RECURSIVE SeqsUpTo(_, _)
SeqsUpTo(S, n) ==
    IF n = 0 THEN {<<>>}
    ELSE LET shorter == SeqsUpTo(S, n - 1)
         IN  shorter \cup {Append(s, x) : s \in {t \in shorter : Len(t) = n - 1}, x \in S}

\* the orders in which the elements of a finite set may be listed
Orders(S) ==
    {s \in [1..Cardinality(S) -> S] : \A i, j \in 1..Cardinality(S) : i # j => s[i] # s[j]}

(* ------------------------- the catalog (JSON) ------------------------- *)

\* LiquidityPoolJsonInfo records of the catalog: every address is a string
JsonPools ==
    { [id |-> "P1", baseMint |-> "X", quoteMint |-> "Y", baseDecimals |-> 0, quoteDecimals |-> 1,
       marketId |-> "M1"],
      [id |-> "P2", baseMint |-> "Y", quoteMint |-> "X", baseDecimals |-> 1, quoteDecimals |-> 0,
       marketId |-> "M2"],
      [id |-> "P3", baseMint |-> "X", quoteMint |-> "Z", baseDecimals |-> 0, quoteDecimals |-> 0,
       marketId |-> "M3"] }

Catalogs == SeqsUpTo(JsonPools, MaxCatalog)

\* the body of the catalog endpoint: { official, unOfficial }
LiquidityJsons ==
    {j \in [official : Catalogs, unOfficial : Catalogs] :
        Len(j.official) + Len(j.unOfficial) <= MaxCatalog}

\* the states of the file pools.json
PoolsFiles ==
    {[state |-> "missing", items |-> <<>>], [state |-> "corrupt", items |-> <<>>]}
        \cup {[state |-> "ok", items |-> c] : c \in Catalogs}

\* the field allPoolKeysJson: declared without an initializer, so unset until assigned
UnsetCatalog == [defined |-> FALSE, items |-> <<>>]

LoadedCatalog(items) == [defined |-> TRUE, items |-> items]

\* jsonInfo2PoolKeys: the strings of a catalog record become key objects
jsonInfo2PoolKeys(j) ==
    [id |-> PublicKey(j.id), baseMint |-> PublicKey(j.baseMint), quoteMint |-> PublicKey(j.quoteMint),
     baseDecimals |-> j.baseDecimals, quoteDecimals |-> j.quoteDecimals,
     marketId |-> PublicKey(j.marketId)]

\* the older lookup predicate shape a regression would give: one ordering only
MatchesOneWay(i, mintA, mintB) == i.baseMint = mintA /\ i.quoteMint = mintB

\* the predicate of findPoolInfoForTokens's find
Matches(i, mintA, mintB) ==
    (i.baseMint = mintA /\ i.quoteMint = mintB) \/ (i.baseMint = mintB /\ i.quoteMint = mintA)

\* Array.prototype.find from index k on: the first matching element, else undefined
RECURSIVE ArrayFind(_, _, _, _)
ArrayFind(list, mintA, mintB, k) ==
    IF k > Len(list) THEN Undefined
    ELSE IF Matches(list[k], mintA, mintB) THEN list[k]
    ELSE ArrayFind(list, mintA, mintB, k + 1)

\* findPoolInfoForTokens as a function of the field and its arguments:
\* what it does (return / throw) and the value
findPoolInfoForTokens(catalog, mintA, mintB) ==
    IF ~catalog.defined
    THEN [outcome |-> "throw", value |-> "TypeError", pool |-> Null]
    ELSE LET poolData == ArrayFind(catalog.items, mintA, mintB, 1)
         IN  IF poolData = Undefined
             THEN [outcome |-> "return", value |-> "null", pool |-> Null]
             ELSE [outcome |-> "return", value |-> "poolKeys", pool |-> jsonInfo2PoolKeys(poolData)]

(* ------------------------------- state -------------------------------- *)

VARIABLES
    poolsFile,        \* the file pools.json
    allPoolKeysJson,  \* RaydiumSwap.allPoolKeysJson
    ledger,           \* the AMM accounts the swap program owns on chain
    slot,             \* the ledger's current slot; its blockhash is the slot number
    pc,               \* where the (single) caller is: "idle" or the await it is suspended at
    ret,              \* how the last finished operation ended
    poolInfo,         \* the driver's poolInfo: the last lookup result
    scan,             \* locals of findRaydiumPoolInfo / getProgramAccounts
    call,             \* locals of getSwapTransaction / calcAmountOut
    tx,               \* the envelope the last getSwapTransaction returned
    submitted,        \* what the last send / simulate handed to the network
    callId,           \* number of getSwapTransaction calls started
    net               \* the network operations the driver's swap() has issued, in order

vars == <<poolsFile, allPoolKeysJson, ledger, slot, pc, ret, poolInfo, scan, call, tx,
          submitted, callId, net>>

NoRet == [op |-> "none", outcome |-> "none", value |-> "none", args |-> <<>>]

NoScan == [started |-> FALSE]

NoCall == [started |-> FALSE]

NoTx == [version |-> "none"]

NoSubmit == [mode |-> "none"]

(* ------------------------------ catalog ------------------------------- *)

\* loadPoolKeys(): the file when it exists and parses; otherwise (the catch block) the
\* catalog endpoint, whose answer is fetchOutcome ("throw", "notok" or "ok") with body
\* liquidityJson, followed by writeFile, which succeeds or not (writeOk)
loadPoolKeys(fetchOutcome, liquidityJson, writeOk) ==
    /\ pc = "idle"
    /\ IF poolsFile.state = "ok"
       THEN /\ allPoolKeysJson' = LoadedCatalog(poolsFile.items)
            /\ ret' = [op |-> "loadPoolKeys", outcome |-> "return", value |-> "undefined",
                       args |-> <<"file">>]
            /\ UNCHANGED poolsFile
       ELSE CASE fetchOutcome = "throw" ->
                 /\ ret' = [op |-> "loadPoolKeys", outcome |-> "throw", value |-> "FetchError",
                            args |-> <<"fetch">>]
                 /\ UNCHANGED <<allPoolKeysJson, poolsFile>>
              [] fetchOutcome = "notok" ->
                 /\ ret' = [op |-> "loadPoolKeys", outcome |-> "return", value |-> "[]",
                            args |-> <<"fetch">>]
                 /\ UNCHANGED <<allPoolKeysJson, poolsFile>>
              [] OTHER ->
                 /\ allPoolKeysJson' =
                        LoadedCatalog(liquidityJson.official \o liquidityJson.unOfficial)
                 /\ IF writeOk
                    THEN /\ poolsFile' = [state |-> "ok", items |-> allPoolKeysJson'.items]
                         /\ ret' = [op |-> "loadPoolKeys", outcome |-> "return",
                                    value |-> "undefined", args |-> <<"fetch">>]
                    ELSE /\ UNCHANGED poolsFile
                         /\ ret' = [op |-> "loadPoolKeys", outcome |-> "throw",
                                    value |-> "WriteError", args |-> <<"fetch">>]
    /\ UNCHANGED <<ledger, slot, pc, poolInfo, scan, call, tx, submitted, callId>>

LoadPoolKeys ==
    \E fetchOutcome \in {"throw", "notok", "ok"}, liquidityJson \in LiquidityJsons,
       writeOk \in BOOLEAN :
        loadPoolKeys(fetchOutcome, liquidityJson, writeOk)

\* the driver's  poolInfo = raydiumSwap.findPoolInfoForTokens(mintA, mintB)
FindPoolInfoForTokens ==
    \E mintA \in Mints, mintB \in Mints :
        LET r == findPoolInfoForTokens(allPoolKeysJson, mintA, mintB)
        IN  /\ pc = "idle"
            /\ ret' = [op |-> "findPoolInfoForTokens", outcome |-> r.outcome, value |-> r.value,
                       args |-> <<mintA, mintB>>]
            /\ poolInfo' = IF r.outcome = "return" THEN r.pool ELSE poolInfo
            /\ UNCHANGED <<poolsFile, allPoolKeysJson, ledger, slot, pc, scan, call, tx,
                           submitted, callId>>

\* the pools.json file is outside the program: it may be removed or damaged between runs
FileChanges ==
    /\ pc = "idle"
    /\ \E f \in PoolsFiles : f.state # "ok" /\ poolsFile' = f
    /\ poolsFile' # poolsFile
    /\ UNCHANGED <<allPoolKeysJson, ledger, slot, pc, ret, poolInfo, scan, call, tx,
                   submitted, callId>>

InitCatalog ==
    /\ poolsFile \in PoolsFiles
    /\ allPoolKeysJson = UnsetCatalog
    /\ ledger = {}
    /\ slot = 0
    /\ pc = "idle"
    /\ ret = NoRet
    /\ poolInfo = Undefined
    /\ scan = NoScan
    /\ call = NoCall
    /\ tx = NoTx
    /\ submitted = NoSubmit
    /\ callId = 0
    /\ net = <<>>

\* the operations called one by one, outside the driver's swap(): its log stays empty
NextCatalog ==
    \/ LoadPoolKeys /\ UNCHANGED net
    \/ FindPoolInfoForTokens /\ UNCHANGED net
    \/ FileChanges /\ UNCHANGED net

SpecCatalog == InitCatalog /\ [][NextCatalog]_vars

(* ----------------------- on-chain pool resolution -------------------- *)

\* the AMM accounts that may exist on chain, as getProgramAccounts returns them: the
\* account's address and its data in LIQUIDITY_STATE_LAYOUT_V4
ChainPools ==
    { [pubkey |-> "A1", data |-> [baseMint |-> "X", quoteMint |-> "Y", baseDecimal |-> 0,
                                  quoteDecimal |-> 1, marketId |-> "M1"]],
      [pubkey |-> "A2", data |-> [baseMint |-> "Y", quoteMint |-> "X", baseDecimal |-> 1,
                                  quoteDecimal |-> 0, marketId |-> "M2"]],
      [pubkey |-> "A3", data |-> [baseMint |-> "X", quoteMint |-> "Y", baseDecimal |-> 1,
                                  quoteDecimal |-> 1, marketId |-> "M3"]] }

\* the market account of a market address, as getAccountInfo returns it: its owner and
\* its data in MARKET_STATE_LAYOUT_V3
MarketAccount(marketId) ==
    [owner |-> "SerumProgram", data |-> [ownAddress |-> marketId, baseVault |-> "bv" \o marketId,
                                         quoteVault |-> "qv" \o marketId]]

\* the accounts a scan with the memcmp filters (baseMint, quoteMint) selects
ScanMatches(accounts, baseMint, quoteMint) ==
    {a \in accounts : a.data.baseMint = baseMint /\ a.data.quoteMint = quoteMint}

\* layout.decode(info.account.data) with id, version and programId added
DecodePool(info) ==
    [id |-> PublicKey(info.pubkey), version |-> PoolVersion,
     programId |-> PublicKey(RAYDIUM_V4_PROGRAM_ID),
     baseMint |-> PublicKey(info.data.baseMint), quoteMint |-> PublicKey(info.data.quoteMint),
     baseDecimal |-> info.data.baseDecimal, quoteDecimal |-> info.data.quoteDecimal,
     marketId |-> PublicKey(info.data.marketId)]

\* a regression of getProgramAccounts: the responses taken in the order they completed
ResponsesInArrivalOrder(resp, arrival) == <<resp[arrival[1]], resp[arrival[2]]>>

\* what Promise.all resolves to: the responses in the order the scans were issued,
\* whatever the order (arrival) they completed in
PromiseAll(resp, arrival) == <<resp[1], resp[2]>>

\* response.filter((r) => r.length > 0)[0] || []
FirstNonEmpty(response) ==
    IF Len(response[1]) > 0 THEN response[1]
    ELSE IF Len(response[2]) > 0 THEN response[2]
    ELSE <<>>

\* a regression of findRaydiumPoolInfo: the `if (!pool) return null` left out
PoolFoundUnchecked(pool) == TRUE

\* the negation of `!pool`: findRaydiumPoolInfo goes on only with a decoded pool
PoolFound(pool) == pool # Undefined

\* the object literal poolKeys of findRaydiumPoolInfo
AssemblePoolKeys(pool, market) ==
    [id |-> pool.id, baseMint |-> pool.baseMint, quoteMint |-> pool.quoteMint,
     baseDecimals |-> pool.baseDecimal, quoteDecimals |-> pool.quoteDecimal,
     lpDecimals |-> pool.baseDecimal, version |-> pool.version, programId |-> pool.programId,
     marketVersion |-> MarketVersion, marketProgramId |-> PublicKey(market.owner),
     marketId |-> PublicKey(market.data.ownAddress),
     marketBaseVault |-> PublicKey(market.data.baseVault),
     marketQuoteVault |-> PublicKey(market.data.quoteVault)]

\* findRaydiumPoolInfo(baseMint, quoteMint) up to its first await: getProgramAccounts
\* issues both scans and awaits them together
FindRaydiumPoolInfo ==
    \E baseMint \in Mints, quoteMint \in Mints :
        /\ pc = "idle"
        /\ pc' = "scans"
        /\ scan' = [started |-> TRUE, baseMint |-> baseMint, quoteMint |-> quoteMint,
                    resp |-> <<<<>>, <<>>>>, arrival |-> <<>>, programData |-> <<>>,
                    marketRequested |-> FALSE, finished |-> FALSE]
        /\ UNCHANGED <<poolsFile, allPoolKeysJson, ledger, slot, ret, poolInfo, call, tx,
                       submitted, callId>>

\* the response of scan i arrives (1: baseMint/quoteMint as given, 2: swapped); the node
\* lists the matching accounts in an order of its choosing
ScanResponds(i) ==
    /\ pc = "scans"
    /\ \A k \in 1..Len(scan.arrival) : scan.arrival[k] # i
    /\ \E accounts \in Orders(IF i = 1
                              THEN ScanMatches(ledger, scan.baseMint, scan.quoteMint)
                              ELSE ScanMatches(ledger, scan.quoteMint, scan.baseMint)) :
          scan' = [scan EXCEPT !.resp[i] = accounts, !.arrival = Append(@, i)]
    /\ UNCHANGED <<poolsFile, allPoolKeysJson, ledger, slot, pc, ret, poolInfo, call, tx,
                   submitted, callId>>

\* both scans have answered: getProgramAccounts returns, findRaydiumPoolInfo decodes the
\* first account and either returns null or asks for the market account
ScansDone ==
    /\ pc = "scans"
    /\ Len(scan.arrival) = 2
    /\ LET programData == FirstNonEmpty(PromiseAll(scan.resp, scan.arrival))
           pool == IF Len(programData) > 0 THEN DecodePool(programData[1]) ELSE Undefined
       IN  IF PoolFound(pool)
           THEN /\ pc' = "market"
                /\ scan' = [scan EXCEPT !.programData = programData, !.marketRequested = TRUE]
                /\ UNCHANGED <<ret, poolInfo>>
           ELSE /\ pc' = "idle"
                /\ scan' = [scan EXCEPT !.programData = programData, !.finished = TRUE]
                /\ ret' = [op |-> "findRaydiumPoolInfo", outcome |-> "return", value |-> "null",
                           args |-> <<scan.baseMint, scan.quoteMint>>]
                /\ poolInfo' = Null
    /\ UNCHANGED <<poolsFile, allPoolKeysJson, ledger, slot, call, tx, submitted, callId>>

\* getAccountInfo(pool.marketId) answers: with the market account (exists) or with null,
\* on which `item.owner` throws
MarketResponds ==
    /\ pc = "market"
    /\ pc' = "idle"
    /\ scan' = [scan EXCEPT !.finished = TRUE]
    /\ \E exists \in BOOLEAN :
          LET pool == DecodePool(scan.programData[1])
          IN  IF exists
              THEN /\ poolInfo' = AssemblePoolKeys(pool, MarketAccount(toString(pool.marketId)))
                   /\ ret' = [op |-> "findRaydiumPoolInfo", outcome |-> "return",
                              value |-> "poolKeys", args |-> <<scan.baseMint, scan.quoteMint>>]
              ELSE /\ UNCHANGED poolInfo
                   /\ ret' = [op |-> "findRaydiumPoolInfo", outcome |-> "throw",
                              value |-> "TypeError", args |-> <<scan.baseMint, scan.quoteMint>>]
    /\ UNCHANGED <<poolsFile, allPoolKeysJson, ledger, slot, call, tx, submitted, callId>>

\* after loadPoolKeys: the catalog is unset (the load failed) or holds a fetched list;
\* the chain holds any of the AMM accounts
InitResolve ==
    /\ poolsFile = [state |-> "missing", items |-> <<>>]
    /\ allPoolKeysJson \in {UnsetCatalog} \cup {LoadedCatalog(c) : c \in Catalogs}
    /\ ledger \in SUBSET ChainPools
    /\ slot = 0
    /\ pc = "idle"
    /\ ret = NoRet
    /\ poolInfo = Undefined
    /\ scan = NoScan
    /\ call = NoCall
    /\ tx = NoTx
    /\ submitted = NoSubmit
    /\ callId = 0
    /\ net = <<>>

NextResolve ==
    \/ FindPoolInfoForTokens /\ UNCHANGED net
    \/ FindRaydiumPoolInfo /\ UNCHANGED net
    \/ \E i \in 1..2 : ScanResponds(i) /\ UNCHANGED net
    \/ ScansDone /\ UNCHANGED net
    \/ MarketResponds /\ UNCHANGED net

SpecResolve == InitResolve /\ [][NextResolve]_vars

(* ------------------------------- quote -------------------------------- *)

\* the wallet's key (this.wallet.publicKey, this.wallet.payer)
Wallet == "wallet"

\* an optional argument: <<>> when the caller leaves it out, <<v>> when it passes v
Given(v) == <<v>>

NotGiven == <<>>

\* a TypeScript default parameter value:  name: T = dflt
OrDefault(arg, dflt) == IF arg = NotGiven THEN dflt ELSE arg[1]

RECURSIVE Pow10(_)
Pow10(n) == IF n = 0 THEN 1 ELSE 10 * Pow10(n - 1)

\* the quotient of a / b rounded up, for a >= 0 and b > 0
CeilDiv(a, b) == (a + b - 1) \div b

\* new Token(TOKEN_PROGRAM_ID, mint, decimals)
Token(mint, decimals) == [mint |-> mint, decimals |-> decimals]

\* new TokenAmount(token, amount.toFixed(decimals), false): amount is in whole units of the
\* token (isRaw = false), so the raw amount has `decimals` more digits
TokenAmount(token, amount) == [token |-> token, raw |-> amount * Pow10(token.decimals)]

\* the slippage of the older calcAmountOut: always 5%
FivePercent(slippage) == [numerator |-> DefaultSlippage, denominator |-> 100]

\* new Percent(slippage, 100)
Percent(slippage) == [numerator |-> slippage, denominator |-> 100]

\* Liquidity.fetchInfo: the pool's live state, with the decimals the pool account holds and
\* the reserves of the moment
Reserves == { [baseReserve |-> 1000, quoteReserve |-> 50000],
              [baseReserve |-> 700, quoteReserve |-> 300] }

PoolStates(poolKeys) ==
    {[baseDecimals |-> poolKeys.baseDecimals, quoteDecimals |-> poolKeys.quoteDecimals,
      baseReserve |-> r.baseReserve, quoteReserve |-> r.quoteReserve] : r \in Reserves}

\* Liquidity.computeAmountOut: constant product with the 0.25% fee taken from the input;
\* the reserve sides follow the mint of amountIn; minAmountOut is amountOut less the slippage,
\* floor-rounded
computeAmountOut(poolKeys, poolState, amountIn, currencyOut, slippage) ==
    LET baseIn == amountIn.token.mint = poolKeys.baseMint
        reserveIn == IF baseIn THEN poolState.baseReserve ELSE poolState.quoteReserve
        reserveOut == IF baseIn THEN poolState.quoteReserve ELSE poolState.baseReserve
        fee == CeilDiv(amountIn.raw * 25, 10000)
        amountInAfterFee == amountIn.raw - fee
        amountOutRaw == (reserveOut * amountInAfterFee) \div (reserveIn + amountInAfterFee)
        minAmountOutRaw ==
            (amountOutRaw * (slippage.denominator - slippage.numerator)) \div slippage.denominator
    IN  [amountIn |-> amountIn,
         amountOut |-> [token |-> currencyOut, raw |-> amountOutRaw],
         minAmountOut |-> [token |-> currencyOut, raw |-> minAmountOutRaw],
         fee |-> fee, reserveIn |-> reserveIn, reserveOut |-> reserveOut]

\* calcAmountOut(poolKeys, rawAmountIn, slippage, swapInDirection) once fetchInfo has
\* answered with poolState (the code's poolInfo)
calcAmountOut(poolKeys, poolState, rawAmountIn, slippage, swapInDirection) ==
    LET currencyInMint == IF swapInDirection THEN poolKeys.baseMint ELSE poolKeys.quoteMint
        currencyInDecimals ==
            IF swapInDirection THEN poolState.baseDecimals ELSE poolState.quoteDecimals
        currencyOutMint == IF swapInDirection THEN poolKeys.quoteMint ELSE poolKeys.baseMint
        currencyOutDecimals ==
            IF swapInDirection THEN poolState.quoteDecimals ELSE poolState.baseDecimals
        currencyIn == Token(currencyInMint, currencyInDecimals)
        amountIn == TokenAmount(currencyIn, rawAmountIn)
        currencyOut == Token(currencyOutMint, currencyOutDecimals)
        slippageX == Percent(slippage)
    IN  computeAmountOut(poolKeys, poolState, amountIn, currencyOut, slippageX)

\* the direction test of the older getSwapTransaction(fromToken, ...)
DirectionFromBase(poolKeys, toToken) == toString(poolKeys.baseMint) = toToken

\* const directionIn = poolKeys.quoteMint.toString() == toToken
DirectionIn(poolKeys, toToken) == toString(poolKeys.quoteMint) = toToken

(* ------------------------ transaction assembly ------------------------ *)

\* the sets of mints the wallet may hold token accounts for
TokenHoldings == { {}, {"X"}, {"Y"}, {"X", "Y", "Z"} }

\* the value of getTokenAccountsByOwner for a wallet holding accounts of `mints`
WalletTokenAccounts(mints) ==
    {[pubkey |-> "ata-" \o m, account |-> [owner |-> "TokenProgram", data |-> [mint |-> m]]] :
        m \in mints}

\* getOwnerTokenAccounts: walletTokenAccount.value.map(...)
getOwnerTokenAccounts(value) ==
    {[pubkey |-> i.pubkey, programId |-> i.account.owner,
      accountInfo |-> [mint |-> PublicKey(i.account.data.mint)]] : i \in value}

\* Liquidity.makeSwapInstructionSimple: the compute-budget instruction first, then the
\* creation of the output token account when the wallet has none, then the swap instruction;
\* it fails when the wallet has no account of the input token. With fixedSide "in" the
\* amounts are (amountIn, minAmountOut := amountOut); with "out", (maxAmountIn := amountIn,
\* amountOut).
makeSwapInstructionSimple(makeTxVersion, poolKeys, tokenAccounts, owner, amountIn, amountOut, fixedSide, microLamports) ==
    LET has(mint) == \E t \in tokenAccounts : t.accountInfo.mint = mint
        ata(mint) == "ata-" \o toString(mint)
        budget == [programId |-> "ComputeBudget", accounts |-> <<>>,
                   data |-> [op |-> "setComputeUnitPrice", microLamports |-> microLamports]]
        create == [programId |-> "AssociatedToken",
                   accounts |-> <<owner, ata(amountOut.token.mint), toString(amountOut.token.mint)>>,
                   data |-> [op |-> "create"]]
        swap == [programId |-> toString(PublicKey(RAYDIUM_V4_PROGRAM_ID)),
                 accounts |-> <<toString(poolKeys.id), toString(poolKeys.marketId),
                                ata(amountIn.token.mint), ata(amountOut.token.mint), owner>>,
                 data |-> IF fixedSide = "in"
                          THEN [op |-> "swapBaseIn", amountIn |-> amountIn.raw,
                                minAmountOut |-> amountOut.raw]
                          ELSE [op |-> "swapBaseOut", maxAmountIn |-> amountIn.raw,
                                amountOut |-> amountOut.raw]]
    IN  IF ~has(amountIn.token.mint)
        THEN [ok |-> FALSE, instructions |-> <<>>]
        ELSE [ok |-> TRUE,
              instructions |-> <<budget>> \o (IF has(amountOut.token.mint) THEN <<>> ELSE <<create>>)
                                   \o <<swap>>]

\* the swap instruction's amounts as getSwapTransaction hands them over:
\* amountIn: amountIn, amountOut: minAmountOut
SwapAmounts(quote, fixedSide) == [amountIn |-> quote.amountIn, amountOut |-> quote.minAmountOut]

\* swapTransaction.innerTransactions[0].instructions.filter(Boolean)
FilterBoolean(instructions) == SelectSeq(instructions, LAMBDA i : i # Undefined /\ i # Null)

\* a blockhash fetched once (in the first call, at slot 0) and kept for later calls
KeptBlockhash(atSlot, id, step) ==
    [blockhash |-> 0, lastValidBlockHeight |-> 150, fetchedBy |-> [call |-> 1, step |-> step, slot |-> 0]]

\* connection.getLatestBlockhash(), answered at slot atSlot; fetchedBy notes the call and
\* the step of that call which fetched it
getLatestBlockhash(atSlot, id, step) ==
    [blockhash |-> atSlot, lastValidBlockHeight |-> atSlot + 150,
     fetchedBy |-> [call |-> id, step |-> step, slot |-> atSlot]]

\* no signer at all
NoSigners == {}

\* [this.wallet.payer]: the signers of versionedTransaction.sign, sendTransaction and
\* simulateTransaction
PayerSigners == {Wallet}

\* tx.sign(signers), also what connection.sendTransaction(tx, signers) and
\* connection.simulateTransaction(tx, signers) do with a legacy transaction
Sign(t, signers) == [t EXCEPT !.signatures = @ \cup signers]

\* new VersionedTransaction(new TransactionMessage({...}).compileToV0Message())
VersionedTransaction(payerKey, recentBlockhash, instructions) ==
    [version |-> "v0", payerKey |-> payerKey, recentBlockhash |-> recentBlockhash,
     instructions |-> instructions, signatures |-> {}]

\* new Transaction({ blockhash, lastValidBlockHeight, feePayer })
Transaction(blockhash, lastValidBlockHeight, feePayer) ==
    [version |-> "legacy", feePayer |-> feePayer, blockhash |-> blockhash,
     lastValidBlockHeight |-> lastValidBlockHeight, instructions |-> <<>>, signatures |-> {}]

\* an add that loses the leading (compute-budget) instruction
AddWithoutFirst(t, instructions) == [t EXCEPT !.instructions = @ \o Tail(instructions)]

\* legacyTransaction.add(...instructions)
Add(t, instructions) == [t EXCEPT !.instructions = @ \o instructions]

\* the tail of getSwapTransaction: the envelope built from the blockhash and the instructions
BuildTransaction(useVersionedTransaction, recentBlockhashForSwap, instructions) ==
    IF useVersionedTransaction
    THEN Sign(VersionedTransaction(Wallet, recentBlockhashForSwap.blockhash, instructions),
              PayerSigners)
    ELSE Add(Transaction(recentBlockhashForSwap.blockhash,
                         recentBlockhashForSwap.lastValidBlockHeight, Wallet),
             instructions)

\* the recent blockhash an envelope carries
TxBlockhash(t) == IF t.version = "v0" THEN t.recentBlockhash ELSE t.blockhash

(* ------------------- getSwapTransaction, send, simulate ---------------- *)

\* the pool keys a caller may pass: catalog records and pools found on chain, or null
PoolKeysArgs ==
    {jsonInfo2PoolKeys(j) : j \in JsonPools}
        \cup {AssemblePoolKeys(DecodePool(a), MarketAccount(a.data.marketId)) :
                a \in ChainPools}
        \cup {Null}

Amounts == {1, 3}

\* the slippage argument: left out, or a percentage
SlippageArgs == {NotGiven, Given(0), Given(10), Given(100)}

\* the priority fee argument (microLamports)
MaxLamportsArgs == {100000}

NoQuote == [none |-> TRUE]

NoBlockhash == [none |-> TRUE]

\* getSwapTransaction(toToken, amount, poolKeys, maxLamports, useVersionedTransaction,
\* fixedSide, slippage) up to its first await (fetchInfo, in calcAmountOut); reading
\* poolKeys.quoteMint of null throws
GetSwapTransaction ==
    \E toToken \in Mints, amount \in Amounts, poolKeys \in PoolKeysArgs,
       maxLamports \in MaxLamportsArgs, useVersionedTransaction \in BOOLEAN,
       fixedSide \in {"in", "out"}, slippageArg \in SlippageArgs :
        /\ pc = "idle"
        /\ ~call.started
        /\ callId < MaxCalls
        /\ callId' = callId + 1
        /\ tx' = NoTx
        /\ submitted' = NoSubmit
        /\ call' = [started |-> TRUE, id |-> callId + 1, step |-> 0, startSlot |-> slot,
                    toToken |-> toToken, amount |-> amount, poolKeys |-> poolKeys,
                    maxLamports |-> maxLamports,
                    useVersionedTransaction |-> useVersionedTransaction,
                    fixedSide |-> fixedSide, slippageArg |-> slippageArg,
                    slippage |-> OrDefault(slippageArg, DefaultSlippage),
                    directionIn |-> IF poolKeys = Null THEN FALSE
                                    ELSE DirectionIn(poolKeys, toToken),
                    poolState |-> NoQuote, quote |-> NoQuote, quoteAt |-> NoQuote,
                    userTokenAccounts |-> {}, instructions |-> <<>>, instructionsAt |-> NoQuote,
                    recentBlockhashForSwap |-> NoBlockhash]
        /\ IF poolKeys = Null
           THEN /\ pc' = "idle"
                /\ ret' = [op |-> "getSwapTransaction", outcome |-> "throw", value |-> "TypeError",
                           args |-> <<toToken>>]
           ELSE /\ pc' = "fetchInfo"
                /\ ret' = NoRet
        /\ UNCHANGED <<poolsFile, allPoolKeysJson, ledger, slot, poolInfo, scan>>

\* Liquidity.fetchInfo answers (or fails); calcAmountOut computes the quote and
\* getSwapTransaction asks for the wallet's token accounts
FetchInfoResponds ==
    /\ pc = "fetchInfo"
    /\ \E ok \in BOOLEAN, poolState \in PoolStates(call.poolKeys) :
          IF ok
          THEN /\ pc' = "tokenAccounts"
               /\ call' = [call EXCEPT
                     !.step = @ + 1,
                     !.poolState = poolState,
                     !.quote = calcAmountOut(call.poolKeys, poolState, call.amount, call.slippage,
                                             call.directionIn),
                     !.quoteAt = [call |-> call.id, step |-> call.step + 1, slot |-> slot]]
               /\ UNCHANGED ret
          ELSE /\ pc' = "idle"
               /\ call' = [call EXCEPT !.step = @ + 1]
               /\ ret' = [op |-> "getSwapTransaction", outcome |-> "throw",
                          value |-> "StateUnavailable", args |-> <<call.toToken>>]
    /\ UNCHANGED <<poolsFile, allPoolKeysJson, ledger, slot, poolInfo, scan, tx, submitted,
                   callId>>

\* getTokenAccountsByOwner answers; makeSwapInstructionSimple builds the instructions (or
\* fails) and getSwapTransaction asks for the latest blockhash
TokenAccountsRespond ==
    /\ pc = "tokenAccounts"
    /\ \E mints \in TokenHoldings :
          LET userTokenAccounts == getOwnerTokenAccounts(WalletTokenAccounts(mints))
              amounts == SwapAmounts(call.quote, call.fixedSide)
              swapTransaction ==
                  makeSwapInstructionSimple(IF call.useVersionedTransaction THEN 0 ELSE 1,
                                            call.poolKeys, userTokenAccounts, Wallet,
                                            amounts.amountIn, amounts.amountOut, call.fixedSide,
                                            call.maxLamports)
          IN  IF swapTransaction.ok
              THEN /\ pc' = "blockhash"
                   /\ call' = [call EXCEPT
                         !.step = @ + 1,
                         !.userTokenAccounts = userTokenAccounts,
                         !.instructions = swapTransaction.instructions,
                         !.instructionsAt = [call |-> call.id, step |-> call.step + 1,
                                             slot |-> slot]]
                   /\ UNCHANGED ret
              ELSE /\ pc' = "idle"
                   /\ call' = [call EXCEPT !.step = @ + 1, !.userTokenAccounts = userTokenAccounts]
                   /\ ret' = [op |-> "getSwapTransaction", outcome |-> "throw",
                              value |-> "AssemblyError", args |-> <<call.toToken>>]
    /\ UNCHANGED <<poolsFile, allPoolKeysJson, ledger, slot, poolInfo, scan, tx, submitted,
                   callId>>

\* getLatestBlockhash answers; getSwapTransaction builds the envelope and returns it
BlockhashResponds ==
    /\ pc = "blockhash"
    /\ pc' = "idle"
    /\ LET recentBlockhashForSwap == getLatestBlockhash(slot, call.id, call.step + 1)
           instructions == FilterBoolean(call.instructions)
       IN  /\ call' = [call EXCEPT !.step = @ + 1,
                                   !.recentBlockhashForSwap = recentBlockhashForSwap]
           /\ tx' = BuildTransaction(call.useVersionedTransaction, recentBlockhashForSwap,
                                     instructions)
    /\ ret' = [op |-> "getSwapTransaction", outcome |-> "return", value |-> "tx",
               args |-> <<call.toToken>>]
    /\ UNCHANGED <<poolsFile, allPoolKeysJson, ledger, slot, poolInfo, scan, submitted, callId>>

\* sendLegacyTransaction(tx): connection.sendTransaction(tx, [this.wallet.payer],
\* { skipPreflight: true }) signs with the signers and sends
SendLegacyTransaction ==
    /\ pc = "idle"
    /\ tx.version = "legacy"
    /\ submitted = NoSubmit
    /\ submitted' = [mode |-> "send", tx |-> Sign(tx, PayerSigners), skipPreflight |-> TRUE]
    /\ ret' = [op |-> "sendLegacyTransaction", outcome |-> "return", value |-> "txid",
               args |-> <<>>]
    /\ UNCHANGED <<poolsFile, allPoolKeysJson, ledger, slot, pc, poolInfo, scan, call, tx, callId>>

\* sendVersionedTransaction(tx): connection.sendTransaction(tx, { skipPreflight: true })
SendVersionedTransaction ==
    /\ pc = "idle"
    /\ tx.version = "v0"
    /\ submitted = NoSubmit
    /\ submitted' = [mode |-> "send", tx |-> tx, skipPreflight |-> TRUE]
    /\ ret' = [op |-> "sendVersionedTransaction", outcome |-> "return", value |-> "txid",
               args |-> <<>>]
    /\ UNCHANGED <<poolsFile, allPoolKeysJson, ledger, slot, pc, poolInfo, scan, call, tx, callId>>

\* simulateLegacyTransaction(tx): connection.simulateTransaction(tx, [this.wallet.payer])
SimulateLegacyTransaction ==
    /\ pc = "idle"
    /\ tx.version = "legacy"
    /\ submitted = NoSubmit
    /\ submitted' = [mode |-> "simulate", tx |-> Sign(tx, PayerSigners), skipPreflight |-> FALSE]
    /\ ret' = [op |-> "simulateLegacyTransaction", outcome |-> "return", value |-> "simRes",
               args |-> <<>>]
    /\ UNCHANGED <<poolsFile, allPoolKeysJson, ledger, slot, pc, poolInfo, scan, call, tx, callId>>

\* simulateVersionedTransaction(tx): connection.simulateTransaction(tx)
SimulateVersionedTransaction ==
    /\ pc = "idle"
    /\ tx.version = "v0"
    /\ submitted = NoSubmit
    /\ submitted' = [mode |-> "simulate", tx |-> tx, skipPreflight |-> FALSE]
    /\ ret' = [op |-> "simulateVersionedTransaction", outcome |-> "return", value |-> "simRes",
               args |-> <<>>]
    /\ UNCHANGED <<poolsFile, allPoolKeysJson, ledger, slot, pc, poolInfo, scan, call, tx, callId>>

\* the driver's swap() returns (or rejects): its locals, the envelope among them, are gone
SwapReturns ==
    /\ pc = "idle"
    /\ call.started
    /\ call' = NoCall
    /\ tx' = NoTx
    /\ submitted' = NoSubmit
    /\ ret' = NoRet
    /\ UNCHANGED <<poolsFile, allPoolKeysJson, ledger, slot, pc, poolInfo, scan, callId>>

\* the ledger moves to its next slot, at any time
NextSlot ==
    /\ slot < MaxSlot
    /\ slot' = slot + 1
    /\ UNCHANGED <<poolsFile, allPoolKeysJson, ledger, pc, ret, poolInfo, scan, call, tx,
                   submitted, callId>>

InitSwap ==
    /\ poolsFile = [state |-> "missing", items |-> <<>>]
    /\ allPoolKeysJson = UnsetCatalog
    /\ ledger = {}
    /\ slot = 0
    /\ pc = "idle"
    /\ ret = NoRet
    /\ poolInfo = Undefined
    /\ scan = NoScan
    /\ call = NoCall
    /\ tx = NoTx
    /\ submitted = NoSubmit
    /\ callId = 0
    /\ net = <<>>

NextSwap ==
    \/ GetSwapTransaction /\ UNCHANGED net
    \/ FetchInfoResponds /\ UNCHANGED net
    \/ TokenAccountsRespond /\ UNCHANGED net
    \/ BlockhashResponds /\ UNCHANGED net
    \/ SendLegacyTransaction /\ UNCHANGED net
    \/ SendVersionedTransaction /\ UNCHANGED net
    \/ SimulateLegacyTransaction /\ UNCHANGED net
    \/ SimulateVersionedTransaction /\ UNCHANGED net
    \/ SwapReturns /\ UNCHANGED net
    \/ NextSlot /\ UNCHANGED net

SpecSwap == InitSwap /\ [][NextSwap]_vars

(* ------------------------- the driver: swap() ------------------------- *)

\* the mints the driver swaps between (baseMint, quoteMint of swap())
DriverBaseMint == "X"

DriverQuoteMint == "Y"

\* the statement of swap() the driver is at, from what it last awaited: a throw anywhere
\* rejects swap() (it has no try / catch), and after a miss in the catalog
\* (`if (!poolInfo)`) the chain is asked
DriverAt ==
    IF ret.outcome = "throw" THEN "rejected"
    ELSE IF pc # "idle" THEN "await"
    ELSE IF ret.op = "none" THEN "loadPoolKeys"
    ELSE IF ret.op = "loadPoolKeys" THEN "findPoolInfoForTokens"
    ELSE IF ret.op = "findPoolInfoForTokens"
         THEN IF poolInfo = Null THEN "findRaydiumPoolInfo" ELSE "getSwapTransaction"
    ELSE IF ret.op = "findRaydiumPoolInfo" THEN "getSwapTransaction"
    ELSE IF ret.op = "getSwapTransaction" THEN "submit"
    ELSE "returned"

\* one of the two scans of getProgramAccounts is rejected by the node: Promise.all
\* rejects, and with it getProgramAccounts and findRaydiumPoolInfo
ScanFails(i) ==
    /\ pc = "scans"
    /\ \A k \in 1..Len(scan.arrival) : scan.arrival[k] # i
    /\ pc' = "idle"
    /\ scan' = [scan EXCEPT !.finished = TRUE]
    /\ ret' = [op |-> "findRaydiumPoolInfo", outcome |-> "throw", value |-> "RpcError",
               args |-> <<scan.baseMint, scan.quoteMint>>]
    /\ UNCHANGED <<poolsFile, allPoolKeysJson, ledger, slot, poolInfo, call, tx, submitted,
                   callId>>

\* getTokenAccountsByOwner is rejected: getOwnerTokenAccounts and getSwapTransaction throw
TokenAccountsFail ==
    /\ pc = "tokenAccounts"
    /\ pc' = "idle"
    /\ call' = [call EXCEPT !.step = @ + 1]
    /\ ret' = [op |-> "getSwapTransaction", outcome |-> "throw", value |-> "RpcError",
               args |-> <<call.toToken>>]
    /\ UNCHANGED <<poolsFile, allPoolKeysJson, ledger, slot, poolInfo, scan, tx, submitted,
                   callId>>

\* getLatestBlockhash is rejected: getSwapTransaction throws before any envelope exists
BlockhashFails ==
    /\ pc = "blockhash"
    /\ pc' = "idle"
    /\ call' = [call EXCEPT !.step = @ + 1]
    /\ ret' = [op |-> "getSwapTransaction", outcome |-> "throw", value |-> "RpcError",
               args |-> <<call.toToken>>]
    /\ UNCHANGED <<poolsFile, allPoolKeysJson, ledger, slot, poolInfo, scan, tx, submitted,
                   callId>>

\* connection.sendTransaction / simulateTransaction is rejected: the send or simulate
\* method that handed the envelope over throws
SubmitFails ==
    \E mode \in {"send", "simulate"} :
        /\ pc = "idle"
        /\ tx # NoTx
        /\ submitted = NoSubmit
        /\ submitted' = [mode |-> mode,
                         tx |-> IF tx.version = "legacy" THEN Sign(tx, PayerSigners) ELSE tx,
                         skipPreflight |-> (mode = "send")]
        /\ ret' = [op |-> mode \o (IF tx.version = "legacy" THEN "LegacyTransaction"
                                   ELSE "VersionedTransaction"),
                   outcome |-> "throw", value |-> "SubmissionError", args |-> <<>>]
        /\ UNCHANGED <<poolsFile, allPoolKeysJson, ledger, slot, pc, poolInfo, scan, call, tx,
                       callId>>

\* await raydiumSwap.loadPoolKeys(): the catalog endpoint is asked when the file is not used
SwapLoadPoolKeys ==
    /\ DriverAt = "loadPoolKeys"
    /\ LoadPoolKeys
    /\ net' = IF ret'.args = <<"fetch">> THEN Append(net, "fetch") ELSE net

\* let poolInfo = raydiumSwap.findPoolInfoForTokens(baseMint, quoteMint)
SwapFindPoolInfoForTokens ==
    /\ DriverAt = "findPoolInfoForTokens"
    /\ FindPoolInfoForTokens
    /\ ret'.args = <<DriverBaseMint, DriverQuoteMint>>
    /\ UNCHANGED net

\* if (!poolInfo) poolInfo = await raydiumSwap.findRaydiumPoolInfo(baseMint, quoteMint):
\* the two scans go out
SwapFindRaydiumPoolInfo ==
    /\ DriverAt = "findRaydiumPoolInfo"
    /\ FindRaydiumPoolInfo
    /\ scan'.baseMint = DriverBaseMint
    /\ scan'.quoteMint = DriverQuoteMint
    /\ net' = net \o <<"getProgramAccounts 1", "getProgramAccounts 2">>

\* what a step of findRaydiumPoolInfo past its first await adds to the log: when a pool
\* was decoded its market account is asked for
ResolveRequests ==
    net' = IF pc = "scans" /\ pc' = "market" THEN Append(net, "getAccountInfo") ELSE net

\* const tx = await raydiumSwap.getSwapTransaction(quoteMint, tokenAAmount, poolInfo,
\* 0.0005 * LAMPORTS_PER_SOL, useVersionedTransaction, 'in', 5), whatever poolInfo is;
\* unless reading poolInfo.quoteMint throws, fetchInfo goes out
SwapGetSwapTransaction ==
    /\ DriverAt = "getSwapTransaction"
    /\ GetSwapTransaction
    /\ call'.toToken = DriverQuoteMint
    /\ call'.poolKeys = poolInfo
    /\ call'.fixedSide = "in"
    /\ call'.slippage = DefaultSlippage
    /\ net' = IF pc' = "fetchInfo" THEN Append(net, "fetchInfo") ELSE net

\* what a step of getSwapTransaction past its first await adds to the log: each answer
\* is followed by the next request
BuildRequests ==
    net' = IF pc' = "tokenAccounts" THEN Append(net, "getTokenAccountsByOwner")
           ELSE IF pc' = "blockhash" THEN Append(net, "getLatestBlockhash")
           ELSE net

\* if (executeSwap) send ... else simulate ...: the envelope getSwapTransaction returned
\* goes out once
SubmitRequests ==
    /\ DriverAt = "submit"
    /\ net' = Append(net, submitted'.mode \o "Transaction")

\* one run of swap(): the file and the chain are as the run finds them
InitPipeline ==
    /\ poolsFile \in PoolsFiles
    /\ allPoolKeysJson = UnsetCatalog
    /\ ledger \in SUBSET ChainPools
    /\ slot = 0
    /\ pc = "idle"
    /\ ret = NoRet
    /\ poolInfo = Undefined
    /\ scan = NoScan
    /\ call = NoCall
    /\ tx = NoTx
    /\ submitted = NoSubmit
    /\ callId = 0
    /\ net = <<>>

NextPipeline ==
    \/ SwapLoadPoolKeys
    \/ SwapFindPoolInfoForTokens
    \/ SwapFindRaydiumPoolInfo
    \/ \E i \in 1..2 : ScanResponds(i) /\ ResolveRequests
    \/ \E i \in 1..2 : ScanFails(i) /\ ResolveRequests
    \/ ScansDone /\ ResolveRequests
    \/ MarketResponds /\ ResolveRequests
    \/ SwapGetSwapTransaction
    \/ FetchInfoResponds /\ BuildRequests
    \/ TokenAccountsRespond /\ BuildRequests
    \/ TokenAccountsFail /\ BuildRequests
    \/ BlockhashResponds /\ BuildRequests
    \/ BlockhashFails /\ BuildRequests
    \/ SendLegacyTransaction /\ SubmitRequests
    \/ SendVersionedTransaction /\ SubmitRequests
    \/ SimulateLegacyTransaction /\ SubmitRequests
    \/ SimulateVersionedTransaction /\ SubmitRequests
    \/ SubmitFails /\ SubmitRequests

SpecPipeline == InitPipeline /\ [][NextPipeline]_vars

(* ------------------------- claims: the catalog ------------------------ *)

\* the last operation was a loadPoolKeys that found no usable pools.json and whose
\* catalog fetch answered not-ok
LoadFoundNoSnapshot == ret.op = "loadPoolKeys" /\ ret.value = "[]"

\* C1 (as claimed): when the snapshot source is unavailable, loadPoolKeys returns without
\* raising and leaves the in-memory catalog an empty list, so that a following
\* findPoolInfoForTokens(a, b) returns 'not found' for every a, b instead of raising.
C1_EmptyCatalogAfterFailedLoad ==
    LoadFoundNoSnapshot =>
        /\ ret.outcome = "return"
        /\ allPoolKeysJson = LoadedCatalog(<<>>)
        /\ \A a \in Mints, b \in Mints :
              LET r == findPoolInfoForTokens(allPoolKeysJson, a, b)
              IN  r.outcome = "return" /\ r.value = "null"

\* the indices of the catalog records over the unordered pair {a, b}
PairIndices(items, a, b) == {k \in 1..Len(items) : {items[k].baseMint, items[k].quoteMint} = {a, b}}

\* the first catalog record (in catalog order) over the unordered pair {a, b}, as the result
\* findPoolInfoForTokens is to give
FirstOverPair(items, a, b) ==
    IF PairIndices(items, a, b) = {}
    THEN [outcome |-> "return", value |-> "null", pool |-> Null]
    ELSE LET k == CHOOSE i \in PairIndices(items, a, b) : \A j \in PairIndices(items, a, b) : i <= j
         IN  [outcome |-> "return", value |-> "poolKeys", pool |-> jsonInfo2PoolKeys(items[k])]

\* C2: for every loaded catalog and all a, b, findPoolInfoForTokens(a, b) and
\* findPoolInfoForTokens(b, a) give the same result: the first catalog record whose
\* {baseMint, quoteMint} is the unordered pair {a, b}, or 'not found' for both; and a
\* lookup that ran left exactly that in poolInfo.
C2_LookupIsDirectionAgnostic ==
    allPoolKeysJson.defined =>
        /\ \A a \in Mints, b \in Mints :
              /\ findPoolInfoForTokens(allPoolKeysJson, a, b)
                    = findPoolInfoForTokens(allPoolKeysJson, b, a)
              /\ findPoolInfoForTokens(allPoolKeysJson, a, b)
                    = FirstOverPair(allPoolKeysJson.items, a, b)
        /\ ret.op = "findPoolInfoForTokens" =>
              /\ ret.outcome = "return"
              /\ poolInfo = FirstOverPair(allPoolKeysJson.items, ret.args[2], ret.args[1]).pool

\* C2 witness: the catalog lists the pool Y/X before the pool X/Y, and the lookup of
\* (X, Y) returned the first of them, whose base is the second argument
C2_Witness ==
    /\ allPoolKeysJson.defined
    /\ Len(allPoolKeysJson.items) = 2
    /\ allPoolKeysJson.items[1].id = "P2"
    /\ allPoolKeysJson.items[2].id = "P1"
    /\ ret.op = "findPoolInfoForTokens"
    /\ ret.args = <<"X", "Y">>
    /\ ret.value = "poolKeys"
    /\ poolInfo.id = PublicKey("P2")

(* --------------------- claims: on-chain resolution -------------------- *)

\* both scans of the running or last findRaydiumPoolInfo have answered, and getProgramAccounts
\* has returned
ScansAnswered == scan.started /\ Len(scan.arrival) = 2 /\ pc # "scans"

BothScansEmpty == Len(scan.resp[1]) = 0 /\ Len(scan.resp[2]) = 0

\* findRaydiumPoolInfo was the last operation to finish
ResolveJustEnded == scan.started /\ scan.finished /\ ret.op = "findRaydiumPoolInfo"

C10_ScanChoiceIgnoresArrivalOrder ==
    /\ (scan.started /\ pc # "scans") => Len(scan.arrival) = 2
    /\ ScansAnswered =>
          /\ scan.programData = (IF Len(scan.resp[1]) > 0 THEN scan.resp[1] ELSE scan.resp[2])
          /\ (Len(scan.programData) = 0) <=> BothScansEmpty

\* C10 witness: the swapped scan answered first, both scans found accounts, and the
\* first-direction scan's accounts were used
C10_Witness ==
    /\ ScansAnswered
    /\ scan.arrival = <<2, 1>>
    /\ Len(scan.resp[1]) > 0
    /\ Len(scan.resp[2]) > 0
    /\ scan.resp[1] # scan.resp[2]
    /\ scan.programData = scan.resp[1]

(* ------------------ claims: quote, assembly, submission ---------------- *)

\* calcAmountOut has produced the quote of the running or last getSwapTransaction
Quoted == call.started /\ call.quote # NoQuote

\* makeSwapInstructionSimple has produced the instruction list
InstructionsBuilt == call.started /\ Len(call.instructions) > 0

\* getSwapTransaction has returned an envelope
Built == tx.version # "none"

\* the slippage percentage the caller passed, 5 when it passed none
PassedSlippage == IF call.slippageArg = NotGiven THEN 5 ELSE call.slippageArg[1]

\* C4: for every quote with a slippage percentage in [0, 100], minAmountOut is exactly
\* floor(amountOut * (100 - slippagePercent) / 100), slippagePercent being what the caller
\* passed to getSwapTransaction (5 when it passed nothing); so minAmountOut <= amountOut.
\* (The formula is computeAmountOut's, which is not part of the source: the check is of
\* the slippage value that reaches it.)
C4_MinAmountOutIsSlippageFloor ==
    (Quoted /\ PassedSlippage \in 0..100) =>
        /\ call.quote.minAmountOut.raw
              = (call.quote.amountOut.raw * (100 - PassedSlippage)) \div 100
        /\ call.quote.minAmountOut.raw <= call.quote.amountOut.raw

\* C4 witness: a quote with 10% passed, where the floor rounds and the minimum is below the
\* expected amount
C4_Witness ==
    /\ Quoted
    /\ call.slippageArg = Given(10)
    /\ (call.quote.amountOut.raw * 90) % 100 # 0
    /\ call.quote.minAmountOut.raw < call.quote.amountOut.raw
    /\ call.quote.minAmountOut.raw > 0

\* the swap instruction of the instruction list: its last entry
SwapInstruction == call.instructions[Len(call.instructions)]

\* C5 (as claimed): with fixedSide "in" the swap instruction carries amountIn as the fixed
\* input and minAmountOut as the output floor; with fixedSide "out" it carries the expected
\* amountOut as the fixed output (not minAmountOut) and amountIn as the cap on the input.
C5_AmountsFollowFixedSide ==
    InstructionsBuilt =>
        IF call.fixedSide = "in"
        THEN /\ SwapInstruction.data.op = "swapBaseIn"
             /\ SwapInstruction.data.amountIn = call.quote.amountIn.raw
             /\ SwapInstruction.data.minAmountOut = call.quote.minAmountOut.raw
        ELSE /\ SwapInstruction.data.op = "swapBaseOut"
             /\ SwapInstruction.data.maxAmountIn = call.quote.amountIn.raw
             /\ SwapInstruction.data.amountOut = call.quote.amountOut.raw

\* C6 (as claimed): every envelope getSwapTransaction returns is already signed with the
\* caller's key, versioned or legacy.
C6_ReturnedEnvelopeIsSigned == Built => tx.signatures = {Wallet}

\* C6 (amended): a versioned envelope is returned signed with the caller's key; a legacy
\* envelope is returned unsigned and gets the caller's signature from the send or simulate
\* call it is passed to; so whatever is handed to the network is the returned envelope,
\* signed with the caller's key.
C6_SignedWhenSubmitted ==
    /\ (Built /\ tx.version = "v0") => tx.signatures = {Wallet}
    /\ (Built /\ tx.version = "legacy") => tx.signatures = {}
    /\ submitted.mode # "none" =>
          /\ Built
          /\ submitted.tx.signatures = {Wallet}
          /\ submitted.tx = Sign(tx, {Wallet})

\* C6 witness: a legacy envelope, returned unsigned, was sent and went out signed
C6_Witness ==
    /\ Built
    /\ tx.version = "legacy"
    /\ tx.signatures = {}
    /\ submitted.mode = "send"
    /\ submitted.tx.signatures = {Wallet}

\* the envelope getSwapTransaction would have returned for the same arguments and the same
\* ledger answers (pool state, token accounts, blockhash) with useVersionedTransaction
\* the other way
OtherFraming ==
    LET amounts == SwapAmounts(call.quote, call.fixedSide)
        swapTransaction ==
            makeSwapInstructionSimple(IF ~call.useVersionedTransaction THEN 0 ELSE 1,
                                      call.poolKeys, call.userTokenAccounts, Wallet,
                                      amounts.amountIn, amounts.amountOut, call.fixedSide,
                                      call.maxLamports)
    IN  BuildTransaction(~call.useVersionedTransaction, call.recentBlockhashForSwap,
                         FilterBoolean(swapTransaction.instructions))

\* C7: for identical arguments and ledger state, the versioned and the legacy envelope hold
\* the same instruction list (same programs, accounts, amounts and order, the compute-budget
\* instruction first); they differ in framing and signatures only.
C7_SameInstructionsInBothFramings ==
    Built =>
        /\ tx.instructions = OtherFraming.instructions
        /\ tx.instructions = call.instructions
        /\ tx.instructions[1].programId = "ComputeBudget"
        /\ tx.instructions[Len(tx.instructions)].programId = RAYDIUM_V4_PROGRAM_ID
        /\ OtherFraming.version # tx.version
        /\ TxBlockhash(OtherFraming) = TxBlockhash(tx)

\* C7 witness: a legacy envelope of three instructions (compute budget, token account
\* creation, swap) with the output side fixed
C7_Witness ==
    /\ Built
    /\ tx.version = "legacy"
    /\ Len(tx.instructions) = 3
    /\ call.fixedSide = "out"
    /\ OtherFraming.version = "v0"

\* C8: every returned envelope carries the blockhash of a getLatestBlockhash issued inside
\* the same call, after that call's quote and instruction list were produced; nothing of an
\* earlier call is in it.
C8_BlockhashFetchedInsideTheCall ==
    Built =>
        /\ call.id = callId
        /\ TxBlockhash(tx) = call.recentBlockhashForSwap.blockhash
        /\ call.recentBlockhashForSwap.fetchedBy.call = call.id
        /\ call.quoteAt.call = call.id
        /\ call.instructionsAt.call = call.id
        /\ call.quoteAt.step < call.instructionsAt.step
        /\ call.instructionsAt.step < call.recentBlockhashForSwap.fetchedBy.step
        /\ call.recentBlockhashForSwap.fetchedBy.slot >= call.instructionsAt.slot
        /\ TxBlockhash(tx) = call.recentBlockhashForSwap.fetchedBy.slot
        /\ call.startSlot <= TxBlockhash(tx)
        /\ TxBlockhash(tx) <= slot

\* C8 witness: the second call's envelope, whose quote was made at slot 0 and whose
\* blockhash is that of slot 1
C8_Witness ==
    /\ Built
    /\ callId = 2
    /\ call.id = 2
    /\ call.quoteAt.slot = 0
    /\ TxBlockhash(tx) = 1

\* the requested asset is one of the two assets of the pool passed
TargetInPool ==
    /\ call.poolKeys.baseMint # call.poolKeys.quoteMint
    /\ call.toToken \in {toString(call.poolKeys.baseMint), toString(call.poolKeys.quoteMint)}

TargetIsBase == call.toToken = toString(call.poolKeys.baseMint)

\* C9: the direction comes from the pool record's base/quote fields: for a requested asset T
\* of the pool, the quote's output currency is T and its input currency the pool's other
\* asset, with the decimals and the reserve sides of those assets, whether T is the
\* record's base or its quote.
C9_OutputCurrencyIsRequestedAsset ==
    (Quoted /\ TargetInPool) =>
        /\ call.quote.amountOut.token.mint = PublicKey(call.toToken)
        /\ call.quote.minAmountOut.token = call.quote.amountOut.token
        /\ call.quote.amountIn.token.mint
              = (IF TargetIsBase THEN call.poolKeys.quoteMint ELSE call.poolKeys.baseMint)
        /\ call.quote.amountOut.token.decimals
              = (IF TargetIsBase THEN call.poolState.baseDecimals ELSE call.poolState.quoteDecimals)
        /\ call.quote.amountIn.token.decimals
              = (IF TargetIsBase THEN call.poolState.quoteDecimals ELSE call.poolState.baseDecimals)
        /\ call.quote.reserveOut
              = (IF TargetIsBase THEN call.poolState.baseReserve ELSE call.poolState.quoteReserve)
        /\ call.quote.reserveIn
              = (IF TargetIsBase THEN call.poolState.quoteReserve ELSE call.poolState.baseReserve)

\* C9 witness: the requested asset is the base of the pool record (pool Y/X, Y requested),
\* the two assets having different decimals
C9_Witness ==
    /\ Quoted
    /\ TargetInPool
    /\ TargetIsBase
    /\ call.toToken = "Y"
    /\ call.poolState.baseDecimals # call.poolState.quoteDecimals
    /\ call.quote.amountOut.token = Token(PublicKey("Y"), 1)

(* ------------------------- claims: the pipeline ------------------------ *)

\* pool resolution has failed for the request: the catalog had no record of the pair and
\* findRaydiumPoolInfo ended without a pool
ResolutionFoundNoPool == scan.started /\ scan.finished /\ poolInfo = Null

\* a step that raised ended the run: nothing of swap() can run after it, nothing was built
\* after a failed resolve and nothing was handed to the network after a failed build
RejectedAtOnce ==
    DriverAt = "rejected" =>
        /\ ~ENABLED NextPipeline
        /\ ret.op \in {"loadPoolKeys", "findPoolInfoForTokens"} => ~scan.started
        /\ ret.op \in {"loadPoolKeys", "findPoolInfoForTokens", "findRaydiumPoolInfo"} =>
               ~call.started
        /\ ret.op = "getSwapTransaction" => tx = NoTx /\ submitted = NoSubmit

\* an envelope exists only over pool keys that were found and a pool state fetched in the
\* same call, and only that envelope is handed to the network
EnvelopeFromFetchedState ==
    /\ tx # NoTx =>
           /\ call.started
           /\ call.poolKeys # Null
           /\ call.poolState \in PoolStates(call.poolKeys)
           /\ call.quoteAt.call = call.id
           /\ call.instructionsAt.call = call.id
    /\ submitted # NoSubmit => tx # NoTx /\ submitted.tx \in {tx, Sign(tx, PayerSigners)}

\* no network operation appears twice in the log of the run
NoRequestTwice == \A i, j \in 1..Len(net) : i # j => net[i] # net[j]

\* C11 (as claimed): the pipeline is fail-closed and never retries: once a step of a request
\* has failed (pool resolution, pool-state fetch, token-account fetch, instruction
\* building, blockhash fetch, send or simulate) no later step of that request is executed,
\* no envelope is built or submitted from missing pool data, and no network operation is
\* issued a second time for the request.
C11_FailClosedNoRetry ==
    /\ ResolutionFoundNoPool => ~call.started
    /\ RejectedAtOnce
    /\ EnvelopeFromFetchedState
    /\ NoRequestTwice

====
